---- MODULE Spec2Model ----
(***************************************************************************)
(* CentralAPIClient (dashboard/backend/central_api_client.py): a bearer    *)
(* token HTTP client.  The model covers construction, the pre-request      *)
(* token hook, the four verbs and the handling of the response (status     *)
(* check, body decoding).  The token provider (TokenManager) and the HTTP  *)
(* server are the environment: what they answer is drawn from small sets.  *)
(***************************************************************************)
EXTENDS Integers, Sequences, FiniteSets, TLC

\* ------------------------------------------------------------------ bounds
\* Number of verb calls made on one client.
MaxCalls == 2
\* Response bodies are all lexeme sequences up to this length (plus samples).
MaxBody == 1
\* Verb calls each of the two concurrent callers makes.
MaxConcCalls == 1

\* ------------------------------------------------------------- environment
\* Python's None.
None == "<None>"
\* get_access_token raising instead of returning.
Raise == "<raise>"
\* The provider object handed to the constructor.
Provider == "<TokenManager>"
\* Tokens the provider can return, and the caller's static token.
Tokens == {"tokA", "tokB"}
StaticToken == "tokS"
\* access_token arguments: absent, empty string, a token.
AccessTokenArgs == {None, "", StaticToken}
TokenManagerArgs == {None, Provider}
\* What one get_access_token call does: return a token or raise.
ProviderAnswers == Tokens \cup {Raise}
\* HTTP status codes the server answers with (http.client accepts 100..999).
Statuses == {200, 400, 401, 404, 599, 600}
Verbs == {"get", "post", "put", "delete"}

\* --------------------------------------------------------- response bodies
\* A body is a sequence of lexemes: "ws" a whitespace character, "x" a
\* lexeme that is no JSON (as in `not json`), the others JSON lexemes.
Lexemes == {"ws", "null", "num", "[", "]", "{", "}", "x"}

RECURSIVE SeqsUpTo(_, _)
SeqsUpTo(S, n) ==
  IF n = 0 THEN {<<>>}
  ELSE LET shorter == SeqsUpTo(S, n - 1)
       IN shorter \cup {Append(s, x) : s \in {t \in shorter : Len(t) = n - 1}, x \in S}

SampleBodies ==
  { <<"{", "str", ":", "num", "}">>,
    <<"{", "str", ":", "null", ",", "str", ":", "[", "]", "}">>,
    <<"[", "num", ",", "num", "]">>,
    <<"[", "{", "}", "]">>,
    <<"ws", "null", "ws">>,
    <<"ws", "{", "ws", "}", "ws">>,
    <<"str">>, <<"true">>,
    <<"x", "ws", "x">>,
    <<"{", "str", ":", "num">>,
    <<"{", "}", "x">>,
    <<"{", "}">>, <<"[", "]">>, <<"ws", "ws">> }

Bodies == SeqsUpTo(Lexemes, MaxBody) \cup SampleBodies

\* ------------------------------------------------------------- JSON values
JNull == [kind |-> "null", items |-> <<>>]
JTrue == [kind |-> "bool", items |-> <<>>]
JNum == [kind |-> "num", items |-> <<>>]
JStr == [kind |-> "str", items |-> <<>>]
JList(items) == [kind |-> "list", items |-> items]
JDict(items) == [kind |-> "dict", items |-> items]
EmptyDict == JDict(<<>>)
\* The call returned nothing (it raised).
NoValue == [kind |-> "raised", items |-> <<>>]

\* A "key": value member of a mapping (every key is the lexeme "str").
JMember(v) == [kind |-> "member", items |-> <<v>>]

IsMapping(v) == v.kind = "dict"

\* ------------------------------------------------------------ JSON decoding
\* json.loads over lexemes: whitespace may surround any lexeme.
ParseFail == [ok |-> FALSE, val |-> NoValue, rest |-> <<>>]
ParseOk(v, rest) == [ok |-> TRUE, val |-> v, rest |-> rest]

RECURSIVE SkipWs(_)
SkipWs(s) == IF s # <<>> /\ Head(s) = "ws" THEN SkipWs(Tail(s)) ELSE s

RECURSIVE ParseValue(_), ParseElems(_, _), ParseMembers(_, _)
ParseValue(s) ==
  LET t == SkipWs(s) IN
  IF t = <<>> THEN ParseFail
  ELSE CASE Head(t) = "null" -> ParseOk(JNull, Tail(t))
         [] Head(t) = "true" -> ParseOk(JTrue, Tail(t))
         [] Head(t) = "num" -> ParseOk(JNum, Tail(t))
         [] Head(t) = "str" -> ParseOk(JStr, Tail(t))
         [] Head(t) = "[" ->
              LET u == SkipWs(Tail(t)) IN
              IF u # <<>> /\ Head(u) = "]" THEN ParseOk(JList(<<>>), Tail(u))
              ELSE ParseElems(u, <<>>)
         [] Head(t) = "{" ->
              LET u == SkipWs(Tail(t)) IN
              IF u # <<>> /\ Head(u) = "}" THEN ParseOk(JDict(<<>>), Tail(u))
              ELSE ParseMembers(u, <<>>)
         [] OTHER -> ParseFail

\* The elements of a list after "[", up to and including "]".
ParseElems(s, acc) ==
  LET r == ParseValue(s) IN
  IF ~r.ok THEN ParseFail
  ELSE LET u == SkipWs(r.rest) IN
       IF u = <<>> THEN ParseFail
       ELSE IF Head(u) = "," THEN ParseElems(Tail(u), Append(acc, r.val))
       ELSE IF Head(u) = "]" THEN ParseOk(JList(Append(acc, r.val)), Tail(u))
       ELSE ParseFail

\* The members of a mapping after "{", up to and including "}".
ParseMembers(s, acc) ==
  LET t == SkipWs(s) IN
  IF t = <<>> \/ Head(t) # "str" THEN ParseFail
  ELSE LET c == SkipWs(Tail(t)) IN
       IF c = <<>> \/ Head(c) # ":" THEN ParseFail
       ELSE LET r == ParseValue(Tail(c)) IN
            IF ~r.ok THEN ParseFail
            ELSE LET u == SkipWs(r.rest) IN
                 IF u = <<>> THEN ParseFail
                 ELSE IF Head(u) = "," THEN ParseMembers(Tail(u), Append(acc, JMember(r.val)))
                 ELSE IF Head(u) = "}" THEN ParseOk(JDict(Append(acc, JMember(r.val))), Tail(u))
                 ELSE ParseFail

\* response.json(): the decoded value, or ok = FALSE where it raises a
\* JSONDecodeError (a ValueError): no value, or text after the value.
json(text) ==
  LET r == ParseValue(text) IN
  IF r.ok /\ SkipWs(r.rest) = <<>> THEN ParseOk(r.val, <<>>) ELSE ParseFail

\* str.strip(): leading and trailing whitespace removed.
RECURSIVE StripRight(_)
StripRight(s) ==
  IF s # <<>> /\ s[Len(s)] = "ws" THEN StripRight(SubSeq(s, 1, Len(s) - 1)) ELSE s

strip(s) == StripRight(SkipWs(s))

\* ------------------------------------------------------------------- state
VARIABLES
  phase,          \* "new" before __init__, "ready" after it returned, "failed" after it raised
  access_token,   \* the access_token argument given to __init__
  token_manager,  \* self.token_manager
  headers,        \* self.session.headers
  calls,          \* verb calls made so far
  fetchLog,       \* what each get_access_token call did, in order
  sentLog,        \* the headers of each request handed to the transport, in order
  last,           \* the most recent operation: its response and how it ended
  req,            \* the arguments of the most recent verb call and what the transport got
  conc,           \* two callers sharing one client: where each is, what each sent
  cfg,            \* utils/config.py: the inputs of load_config and its result
  script          \* scripts/cleanup_test_wlans.py: the run of main

clientVars == <<phase, access_token, token_manager, headers, calls, fetchLog, sentLog, last, req>>

\* What is not the serially used client.
others == <<conc, cfg, script>>
vars == <<clientVars, others>>
Idle == [pc |-> "idle"]
OthersIdle == conc = Idle /\ cfg = Idle /\ script = Idle

\* Python truthiness of an Optional argument: None and "" are falsy.
Truthy(v) == v # None /\ v # ""

\* A response: arrived = FALSE is a transport failure (no response at all).
Response(status, text) == [arrived |-> TRUE, status_code |-> status, text |-> text]
NoResponse == [arrived |-> FALSE, status_code |-> 0, text |-> <<>>]
Responses == {Response(st, b) : st \in Statuses, b \in Bodies} \cup {NoResponse}

\* How a call ended: a returned value or a raised exception.
Returned(v) == [outcome |-> "ok", errStatus |-> 0, value |-> v]
Raised(exc, status) == [outcome |-> exc, errStatus |-> status, value |-> NoValue]

\* ---------------------------------------------------------------- headers
\* dict.update: the entries of new replace or extend those of h.
Update(h, new) == new @@ h

\* The f-string f"Bearer {access_token}".
Bearer(tok) == "Bearer " \o tok

\* An _update_token that assigns a fresh header mapping instead of
\* updating the session's.
_update_token_replace(h, tok) == "Authorization" :> Bearer(tok)

\* An _update_token that keeps an Authorization header already there
\* (setdefault for update).
_update_token_setdefault(h, tok) ==
  IF "Authorization" \in DOMAIN h THEN h ELSE Update(h, "Authorization" :> Bearer(tok))

\* _update_token: the Authorization header is overwritten.
_update_token(h, tok) == Update(h, "Authorization" :> Bearer(tok))

\* A hook that asks the provider only while no Authorization header is set.
_ensure_valid_token_cached(h, tm, answer) ==
  IF Truthy(tm) /\ "Authorization" \notin DOMAIN h
  THEN IF answer = Raise
       THEN [headers |-> h, fetched |-> <<Raise>>, raised |-> TRUE]
       ELSE [headers |-> _update_token(h, answer), fetched |-> <<answer>>, raised |-> FALSE]
  ELSE [headers |-> h, fetched |-> <<>>, raised |-> FALSE]

\* A hook that drops the old token before it asks for the new one.
_ensure_valid_token_clearing(h, tm, answer) ==
  IF Truthy(tm)
  THEN IF answer = Raise
       THEN [headers |-> _update_token(h, ""), fetched |-> <<Raise>>, raised |-> TRUE]
       ELSE [headers |-> _update_token(h, answer), fetched |-> <<answer>>, raised |-> FALSE]
  ELSE [headers |-> h, fetched |-> <<>>, raised |-> FALSE]

\* A hook that asks the provider but leaves the header as it was.
_ensure_valid_token_stale(h, tm, answer) ==
  IF Truthy(tm)
  THEN IF answer = Raise
       THEN [headers |-> h, fetched |-> <<Raise>>, raised |-> TRUE]
       ELSE [headers |-> h, fetched |-> <<answer>>, raised |-> FALSE]
  ELSE [headers |-> h, fetched |-> <<>>, raised |-> FALSE]

\* A hook that does not test for a provider: without one it writes the
\* token it does not have, f"Bearer {None}".
_ensure_valid_token_unguarded(h, tm, answer) ==
  IF Truthy(tm)
  THEN IF answer = Raise
       THEN [headers |-> h, fetched |-> <<Raise>>, raised |-> TRUE]
       ELSE [headers |-> _update_token(h, answer), fetched |-> <<answer>>, raised |-> FALSE]
  ELSE [headers |-> _update_token(h, "None"), fetched |-> <<>>, raised |-> FALSE]

\* _ensure_valid_token, given what get_access_token does if it is called:
\* the headers afterwards, the provider calls made, whether it raised.
_ensure_valid_token(h, tm, answer) ==
  IF Truthy(tm)
  THEN IF answer = Raise
       THEN [headers |-> h, fetched |-> <<Raise>>, raised |-> TRUE]
       ELSE [headers |-> _update_token(h, answer), fetched |-> <<answer>>, raised |-> FALSE]
  ELSE [headers |-> h, fetched |-> <<>>, raised |-> FALSE]

\* A constructor that tests access_token before token_manager.
__init__static_first(tok, tm, answer) ==
  LET h0 == Update(<<>>, "Content-Type" :> "application/json") IN
  IF Truthy(tok)
  THEN [headers |-> _update_token(h0, tok), fetched |-> <<>>, outcome |-> "ok"]
  ELSE IF Truthy(tm)
  THEN IF answer = Raise
       THEN [headers |-> h0, fetched |-> <<Raise>>, outcome |-> "ProviderError"]
       ELSE [headers |-> _update_token(h0, answer), fetched |-> <<answer>>, outcome |-> "ok"]
  ELSE [headers |-> h0, fetched |-> <<>>, outcome |-> "ValueError"]

\* A constructor without the final else: no credential, no error.
__init__unchecked(tok, tm, answer) ==
  LET h0 == Update(<<>>, "Content-Type" :> "application/json") IN
  IF Truthy(tm)
  THEN IF answer = Raise
       THEN [headers |-> h0, fetched |-> <<Raise>>, outcome |-> "ProviderError"]
       ELSE [headers |-> _update_token(h0, answer), fetched |-> <<answer>>, outcome |-> "ok"]
  ELSE [headers |-> _update_token(h0, IF tok = None THEN "None" ELSE tok),
        fetched |-> <<>>, outcome |-> "ok"]

\* A constructor that defers the provider's token to the first verb call.
__init__lazy(tok, tm, answer) ==
  LET h0 == Update(<<>>, "Content-Type" :> "application/json") IN
  IF Truthy(tm)
  THEN [headers |-> h0, fetched |-> <<>>, outcome |-> "ok"]
  ELSE IF Truthy(tok)
  THEN [headers |-> _update_token(h0, tok), fetched |-> <<>>, outcome |-> "ok"]
  ELSE [headers |-> h0, fetched |-> <<>>, outcome |-> "ValueError"]

\* __init__ from line 32 on, given what get_access_token does if it is
\* called: the session headers, the provider calls made, and "ok" or the
\* exception that leaves the constructor.  (The headers a requests.Session
\* starts with, User-Agent and the like, are left out.)
__init__(tok, tm, answer) ==
  LET h0 == Update(<<>>, "Content-Type" :> "application/json") IN
  IF Truthy(tm)
  THEN IF answer = Raise
       THEN [headers |-> h0, fetched |-> <<Raise>>, outcome |-> "ProviderError"]
       ELSE [headers |-> _update_token(h0, answer), fetched |-> <<answer>>, outcome |-> "ok"]
  ELSE IF Truthy(tok)
  THEN [headers |-> _update_token(h0, tok), fetched |-> <<>>, outcome |-> "ok"]
  ELSE [headers |-> h0, fetched |-> <<>>, outcome |-> "ValueError"]

\* ---------------------------------------------------------------- responses
\* requests' Response.raise_for_status: an HTTPError for a client error
\* (400..499) or a server error (500..599), nothing for any other status.
raise_for_status(status) == 400 <= status /\ status < 600

\* A get that handles the body before it checks the status.
get_body_first(resp) ==
  IF ~resp.arrived THEN Raised("ConnectionError", 0)
  ELSE IF resp.text = <<>> \/ strip(resp.text) = <<>> THEN Returned(EmptyDict)
  ELSE IF raise_for_status(resp.status_code) THEN Raised("HTTPError", resp.status_code)
  ELSE LET r == json(resp.text) IN
       IF ~r.ok THEN Returned(EmptyDict)
       ELSE IF r.val = JNull THEN Returned(EmptyDict)
       ELSE Returned(r.val)

\* A get without the except clause: the decode error leaves the call.
get_strict(resp) ==
  IF ~resp.arrived THEN Raised("ConnectionError", 0)
  ELSE IF raise_for_status(resp.status_code) THEN Raised("HTTPError", resp.status_code)
  ELSE IF resp.text = <<>> \/ strip(resp.text) = <<>> THEN Returned(EmptyDict)
  ELSE LET r == json(resp.text) IN
       IF ~r.ok THEN Raised("JSONDecodeError", 0)
       ELSE IF r.val = JNull THEN Returned(EmptyDict)
       ELSE Returned(r.val)

\* get, from the response on (lines 75-103): transport failure, status
\* check, blank body, decoding with its except clause, the None case.
get(resp) ==
  IF ~resp.arrived THEN Raised("ConnectionError", 0)
  ELSE IF raise_for_status(resp.status_code) THEN Raised("HTTPError", resp.status_code)
  ELSE IF resp.text = <<>> \/ strip(resp.text) = <<>> THEN Returned(EmptyDict)
  ELSE LET r == json(resp.text) IN
       IF ~r.ok THEN Returned(EmptyDict)
       ELSE IF r.val = JNull THEN Returned(EmptyDict)
       ELSE Returned(r.val)

\* post, put and delete, from the response on: raise_for_status, then
\* response.json() returned as it is.
\* A post that degrades an undecodable body to {} as get does.
post_lenient(resp) ==
  IF ~resp.arrived THEN Raised("ConnectionError", 0)
  ELSE IF raise_for_status(resp.status_code) THEN Raised("HTTPError", resp.status_code)
  ELSE LET r == json(resp.text) IN
       IF ~r.ok THEN Returned(EmptyDict)
       ELSE Returned(r.val)

post(resp) ==
  IF ~resp.arrived THEN Raised("ConnectionError", 0)
  ELSE IF raise_for_status(resp.status_code) THEN Raised("HTTPError", resp.status_code)
  ELSE LET r == json(resp.text) IN
       IF ~r.ok THEN Raised("JSONDecodeError", 0)
       ELSE Returned(r.val)

put(resp) ==
  IF ~resp.arrived THEN Raised("ConnectionError", 0)
  ELSE IF raise_for_status(resp.status_code) THEN Raised("HTTPError", resp.status_code)
  ELSE LET r == json(resp.text) IN
       IF ~r.ok THEN Raised("JSONDecodeError", 0)
       ELSE Returned(r.val)

delete(resp) ==
  IF ~resp.arrived THEN Raised("ConnectionError", 0)
  ELSE IF raise_for_status(resp.status_code) THEN Raised("HTTPError", resp.status_code)
  ELSE LET r == json(resp.text) IN
       IF ~r.ok THEN Raised("JSONDecodeError", 0)
       ELSE Returned(r.val)

verb_outcome(verb, resp) ==
  CASE verb = "get" -> get(resp)
    [] verb = "post" -> post(resp)
    [] verb = "put" -> put(resp)
    [] verb = "delete" -> delete(resp)

\* A verb that issues its request a second time.
requests_sent_twice(verb, h) == <<h, h>>

\* The requests one verb call hands to the transport, each as the headers
\* it carries: the single self.session.<verb>(url, ...) call, which sends
\* the session's headers.
requests_sent(verb, h) == <<h>>

\* ---------------------------------------------------------------- arguments
\* An optional argument: not passed at all, None, or a mapping given as its
\* set of <<key, value>> entries (keys unique, order irrelevant).
AbsentArg == [kind |-> "absent", items |-> {}]
NoneArg == [kind |-> "None", items |-> {}]
DictArg(entries) == [kind |-> "dict", items |-> entries]

\* params and data as callers pass them; the defaults are None.
Params == {NoneArg, DictArg({}), DictArg({<<"limit", "10">>}),
           DictArg({<<"limit", "10">>, <<"offset", "0">>})}
Payloads == {NoneArg, DictArg({<<"ssid", "lab">>})}
DefaultParams == {NoneArg}
DefaultPayloads == {NoneArg}

\* A verb that fills in a default page size in the caller's params.
forward_defaulting(verb, params, data) ==
  LET p == IF params.kind = "dict" THEN DictArg(params.items \cup {<<"limit", "100">>})
           ELSE params
  IN [sent |-> [params |-> p, json |-> IF verb \in {"post", "put"} THEN data ELSE AbsentArg],
      after |-> [params |-> p, data |-> data]]

\* The keyword arguments of the self.session.<verb>(url, ...) call
\* (params=params, and json=data in post and put), and the caller's objects
\* after the call: the client assigns into neither.
forward(verb, params, data) ==
  [sent |-> [params |-> params, json |-> IF verb \in {"post", "put"} THEN data ELSE AbsentArg],
   after |-> [params |-> params, data |-> data]]

NoReq == [given |-> [params |-> NoneArg, data |-> AbsentArg],
          after |-> [params |-> NoneArg, data |-> AbsentArg],
          sent |-> <<>>]

\* ------------------------------------------------------------------ actions
\* last.outcome: "none" before any operation, "pending" while the verb call
\* waits for the transport, else "ok" or the exception raised.
NoOp == [op |-> "none", response |-> NoResponse, outcome |-> "none", errStatus |-> 0,
         value |-> NoValue, fetched |-> <<>>, sent |-> 0]

Init ==
  /\ phase = "new"
  /\ access_token = None
  /\ token_manager = None
  /\ headers = <<>>
  /\ calls = 0
  /\ fetchLog = <<>>
  /\ sentLog = <<>>
  /\ last = NoOp
  /\ req = NoReq
  /\ OthersIdle

\* __init__(base_url, access_token, token_manager).
Construct(tok, tm, answer) ==
  /\ phase = "new"
  /\ access_token' = tok
  /\ token_manager' = tm
  /\ UNCHANGED <<calls, sentLog, req, others>>
  /\ LET r == __init__(tok, tm, answer)
     IN /\ headers' = r.headers
        /\ fetchLog' = fetchLog \o r.fetched
        /\ phase' = IF r.outcome = "ok" THEN "ready" ELSE "failed"
        /\ last' = [NoOp EXCEPT !.op = "init", !.outcome = r.outcome, !.fetched = r.fetched]

\* A verb call up to the transport call: the hook, then the request is
\* sent.  If the hook raises, the call ends here.
Begin(verb, answer, params, data) ==
  /\ phase = "ready"
  /\ last.outcome # "pending"
  /\ calls < MaxCalls
  /\ calls' = calls + 1
  /\ UNCHANGED <<phase, access_token, token_manager, others>>
  /\ LET hook == _ensure_valid_token(headers, token_manager, answer)
     IN /\ headers' = hook.headers
        /\ fetchLog' = fetchLog \o hook.fetched
        /\ IF hook.raised
           THEN /\ sentLog' = sentLog
                /\ req' = [given |-> [params |-> params, data |-> data],
                           after |-> [params |-> params, data |-> data],
                           sent |-> <<>>]
                /\ last' = [NoOp EXCEPT !.op = verb, !.outcome = "ProviderError",
                                        !.fetched = hook.fetched]
           ELSE LET reqs == requests_sent(verb, hook.headers)
                    fwd == forward(verb, params, data)
                IN /\ sentLog' = sentLog \o reqs
                   /\ req' = [given |-> [params |-> params, data |-> data],
                              after |-> fwd.after,
                              sent |-> [i \in 1..Len(reqs) |-> fwd.sent]]
                   /\ last' = [NoOp EXCEPT !.op = verb, !.outcome = "pending",
                                           !.fetched = hook.fetched, !.sent = Len(reqs)]

\* The rest of the verb call: the transport call returns the response (or
\* raises), the status is checked, the body decoded, the call returns.
Finish(resp) ==
  /\ phase = "ready"
  /\ last.outcome = "pending"
  /\ UNCHANGED <<phase, access_token, token_manager, headers, calls, fetchLog, sentLog,
                 req, others>>
  /\ LET res == verb_outcome(last.op, resp)
     IN last' = [last EXCEPT !.response = resp, !.outcome = res.outcome,
                             !.errStatus = res.errStatus, !.value = res.value]

New ==
  \E tok \in AccessTokenArgs, tm \in TokenManagerArgs, answer \in ProviderAnswers :
    Construct(tok, tm, answer)

\* In Spec the verbs are called with their default arguments.
CallGet ==
  \E answer \in ProviderAnswers, params \in DefaultParams :
    Begin("get", answer, params, AbsentArg)
CallPost ==
  \E answer \in ProviderAnswers, params \in DefaultParams, data \in DefaultPayloads :
    Begin("post", answer, params, data)
CallPut ==
  \E answer \in ProviderAnswers, params \in DefaultParams, data \in DefaultPayloads :
    Begin("put", answer, params, data)
CallDelete ==
  \E answer \in ProviderAnswers, params \in DefaultParams :
    Begin("delete", answer, params, AbsentArg)
Receive == \E resp \in Responses : Finish(resp)

Next == New \/ CallGet \/ CallPost \/ CallPut \/ CallDelete \/ Receive

Spec == Init /\ [][Next]_vars

\* ------------------------------------------------ the verbs with arguments
\* The same client, the verbs called with every params and data of Params
\* and Payloads, the server answering from a few responses.
FewResponses == {NoResponse, Response(200, <<"{", "}">>), Response(404, <<>>)}

GetWith ==
  \E answer \in ProviderAnswers, params \in Params :
    Begin("get", answer, params, AbsentArg)
PostWith ==
  \E answer \in ProviderAnswers, params \in Params, data \in Payloads :
    Begin("post", answer, params, data)
PutWith ==
  \E answer \in ProviderAnswers, params \in Params, data \in Payloads :
    Begin("put", answer, params, data)
DeleteWith ==
  \E answer \in ProviderAnswers, params \in Params :
    Begin("delete", answer, params, AbsentArg)
ReceiveFew == \E resp \in FewResponses : Finish(resp)

NextArgs == New \/ GetWith \/ PostWith \/ PutWith \/ DeleteWith \/ ReceiveFew

SpecArgs == Init /\ [][NextArgs]_vars

\* ------------------------------------------- two callers sharing a client
\* Two threads call verbs on one provider-backed client.  The statements of
\* a verb call interleave: the provider is asked (line 55), the header is
\* written (line 56), the request is sent with the session's headers as
\* they then are (line 75), the response comes back.  With
\* conc.serialised the callers hold a lock of their own around each call.
Callers == {1, 2}
Other(c) == CHOOSE d \in Callers : d # c

InitConc ==
  /\ \E t0 \in Tokens, ser \in BOOLEAN :
       LET r == __init__(None, Provider, t0) IN
       /\ headers = r.headers
       /\ fetchLog = r.fetched
       /\ last = [NoOp EXCEPT !.op = "init", !.outcome = r.outcome, !.fetched = r.fetched]
       /\ conc = [pc |-> "run", serialised |-> ser,
                  at |-> [c \in Callers |-> "idle"],
                  tok |-> [c \in Callers |-> None],
                  done |-> [c \in Callers |-> 0],
                  sent |-> <<>>]
  /\ phase = "ready"
  /\ access_token = None
  /\ token_manager = Provider
  /\ calls = 0
  /\ sentLog = <<>>
  /\ req = NoReq
  /\ cfg = Idle
  /\ script = Idle

\* Caller c enters a verb and its hook asks the provider (lines 54-55).
ConcFetch(c, answer) ==
  /\ conc.pc = "run"
  /\ conc.at[c] = "idle"
  /\ conc.done[c] < MaxConcCalls
  /\ conc.serialised => conc.at[Other(c)] = "idle"
  /\ Truthy(token_manager)
  /\ fetchLog' = Append(fetchLog, answer)
  /\ conc' = IF answer = Raise
             THEN [conc EXCEPT !.done[c] = @ + 1]
             ELSE [conc EXCEPT !.at[c] = "fetched", !.tok[c] = answer]
  /\ UNCHANGED <<phase, access_token, token_manager, headers, calls, sentLog, last, req,
                 cfg, script>>

\* The hook of caller c writes the header (line 56).
ConcUpdate(c) ==
  /\ conc.pc = "run"
  /\ conc.at[c] = "fetched"
  /\ headers' = _update_token(headers, conc.tok[c])
  /\ conc' = [conc EXCEPT !.at[c] = "updated"]
  /\ UNCHANGED <<phase, access_token, token_manager, calls, fetchLog, sentLog, last, req,
                 cfg, script>>

\* Caller c reaches the transport call (line 75): the request carries the
\* session's headers of this moment.
ConcSend(c) ==
  /\ conc.pc = "run"
  /\ conc.at[c] = "updated"
  /\ LET reqs == requests_sent("get", headers)
         entry(h) == [caller |-> c, own |-> conc.tok[c], others |-> conc.tok[Other(c)],
                      auth |-> h["Authorization"]]
     IN conc' = [conc EXCEPT !.at[c] = "waiting",
                             !.sent = @ \o [i \in 1..Len(reqs) |-> entry(reqs[i])]]
  /\ UNCHANGED <<clientVars, cfg, script>>

\* The call of caller c returns (or raises).
ConcReturn(c) ==
  /\ conc.pc = "run"
  /\ conc.at[c] = "waiting"
  /\ conc' = [conc EXCEPT !.at[c] = "idle", !.done[c] = @ + 1]
  /\ UNCHANGED <<clientVars, cfg, script>>

NextConc ==
  \E c \in Callers :
    \/ \E answer \in ProviderAnswers : ConcFetch(c, answer)
    \/ ConcUpdate(c)
    \/ ConcSend(c)
    \/ ConcReturn(c)

SpecConc == InitConc /\ [][NextConc]_vars

\* ------------------------------------------------------------- load_config
\* utils/config.py.  A mapping is the set of its <<key, value>> entries.
Fields == {"base_url", "client_id", "client_secret", "customer_id",
           "access_token", "username", "password"}

\* The environment variable of each field (lines 40-53).
EnvVar(f) ==
  CASE f = "base_url" -> "ARUBA_BASE_URL"
    [] f = "client_id" -> "ARUBA_CLIENT_ID"
    [] f = "client_secret" -> "ARUBA_CLIENT_SECRET"
    [] f = "customer_id" -> "ARUBA_CUSTOMER_ID"
    [] f = "access_token" -> "ARUBA_ACCESS_TOKEN"
    [] f = "username" -> "ARUBA_USERNAME"
    [] f = "password" -> "ARUBA_PASSWORD"

\* The default given to .get for each field; None where none is given.
Default(f) ==
  CASE f = "base_url" -> "https://apigw-prod2.central.arubanetworks.com"
    [] f \in {"client_id", "client_secret", "customer_id"} -> ""
    [] OTHER -> None

HasKey(d, k) == \E e \in d : e[1] = k
\* dict.get(k, default).
dict_get(d, k, default) ==
  IF HasKey(d, k) THEN (CHOOSE e \in d : e[1] = k)[2] ELSE default
\* os.getenv(name, default).
getenv(env, name, default) == dict_get(env, name, default)

\* load_dotenv(override=True): the entries of .env replace those of the
\* process environment.
load_dotenv(env, dotenv) ==
  dotenv \cup {e \in env : ~HasKey(dotenv, e[1])}

\* The config file: absent, or what yaml.safe_load makes of it: None (an
\* empty file), another falsy value, a truthy value that is no mapping, or
\* a mapping.  Of a mapping the model keeps the aruba_central entry
\* (missing, None, a value that is no mapping, or a mapping of fields) and
\* whether there are other entries.
NoSection == [kind |-> "missing", fields |-> {}]
ConfigFile(kind, section, more) == [kind |-> kind, section |-> section, more |-> more]
YamlFieldSets == SUBSET {"base_url", "client_id", "access_token"} \cup {Fields}
Sections ==
  {NoSection, [kind |-> "None", fields |-> {}], [kind |-> "scalar", fields |-> {}]}
    \cup {[kind |-> "dict", fields |-> {<<f, "from-yaml">> : f \in F}] : F \in YamlFieldSets}
ConfigFiles ==
  {ConfigFile(k, NoSection, FALSE) : k \in {"absent", "None", "falsy", "scalar"}}
    \cup {ConfigFile("dict", sec, more) : sec \in Sections, more \in BOOLEAN}
Environments == {{<<EnvVar(f), "from-env">> : f \in F} : F \in SUBSET Fields}
DotenvFiles == {{}, {<<"ARUBA_BASE_URL", "from-dotenv">>}}

ConfigResult(outcome, keys, section) ==
  [outcome |-> outcome, keys |-> keys, aruba_central |-> section]

\* load_config(config_path): load_dotenv, then the file (`yaml.safe_load(f)
\* or {}`, {} if there is no file), then the aruba_central entry is
\* rebuilt.  Each os.getenv default is evaluated whether or not the
\* variable is set: config.get("aruba_central", {}).get(field, default),
\* which raises AttributeError where config, or the aruba_central value,
\* has no .get.
load_config(file, env, dotenv) ==
  LET environ == load_dotenv(env, dotenv)
      loaded == IF file.kind \in {"absent", "None", "falsy"}
                THEN ConfigFile("dict", NoSection, FALSE) ELSE file
  IN IF loaded.kind # "dict" THEN ConfigResult("AttributeError", {}, {})
     ELSE IF loaded.section.kind \in {"None", "scalar"}
     THEN ConfigResult("AttributeError", {}, {})
     ELSE LET sec == loaded.section.fields
          IN ConfigResult("ok",
               {"aruba_central"} \cup (IF loaded.more THEN {"other"} ELSE {}),
               {<<f, getenv(environ, EnvVar(f), dict_get(sec, f, Default(f)))>> : f \in Fields})

ClientUnused ==
  /\ phase = "new" /\ access_token = None /\ token_manager = None
  /\ headers = <<>> /\ calls = 0 /\ fetchLog = <<>> /\ sentLog = <<>>
  /\ last = NoOp /\ req = NoReq

InitConfig ==
  /\ ClientUnused
  /\ conc = Idle
  /\ script = Idle
  /\ \E file \in ConfigFiles, env \in Environments, dotenv \in DotenvFiles :
       cfg = [pc |-> "start", file |-> file, env |-> env, dotenv |-> dotenv,
              result |-> ConfigResult("none", {}, {})]

LoadConfig ==
  /\ cfg.pc = "start"
  /\ cfg' = [cfg EXCEPT !.pc = "done", !.result = load_config(cfg.file, cfg.env, cfg.dotenv)]
  /\ UNCHANGED <<clientVars, conc, script>>

NextConfig == LoadConfig

SpecConfig == InitConfig /\ [][NextConfig]_vars

\* -------------------------------------------------- cleanup_test_wlans.py
\* scripts/cleanup_test_wlans.py.  Names are sequences of characters, so
\* that str.startswith is computed.
MaxWlans == 2

Prefix == <<"t", "e", "s", "t", "_">>
TestA == Prefix \o <<"a">>
Prod == <<"p", "r", "o", "d">>
EmptyName == <<>>
Names == {TestA, Prod, EmptyName}

\* s.startswith(prefix).
startswith(s, prefix) ==
  Len(s) >= Len(prefix) /\ SubSeq(s, 1, Len(prefix)) = prefix

\* An entry of the WLAN list: a dict with 'ssid' and/or 'name', or a string.
WlanDict(keys, ssid, name) ==
  [kind |-> "dict", keys |-> keys, ssid |-> ssid, name |-> name, text |-> EmptyName]
WlanStr(text) ==
  [kind |-> "str", keys |-> {}, ssid |-> EmptyName, name |-> EmptyName, text |-> text]
Wlans ==
  {WlanDict({}, EmptyName, EmptyName)}
    \cup {WlanDict({"ssid"}, n, EmptyName) : n \in Names}
    \cup {WlanDict({"name"}, EmptyName, n) : n \in Names}
    \cup {WlanDict({"ssid", "name"}, n, m) : n \in Names, m \in Names}
    \cup {WlanStr(n) : n \in Names}
WlanLists == UNION {[1..n -> Wlans] : n \in 0..MaxWlans}

\* wlan.get(key, default) on a dict entry.
wlan_get(w, key, default) ==
  IF key \in w.keys THEN (IF key = "ssid" THEN w.ssid ELSE w.name) ELSE default

\* What the dashboard answers.  arrived = FALSE is requests raising.
SessionIds == {"sid-1", "", None}
LoginBody(kind, session_id) == [kind |-> kind, session_id |-> session_id]
LoginResponses ==
  {[arrived |-> a, status_code |-> st, body |-> b] :
     a \in BOOLEAN, st \in {200, 401},
     b \in {LoginBody("dict", sid) : sid \in SessionIds} \cup {LoginBody("list", None)}}

\* A member of the WLAN answer: absent, null or a list.
Member(kind, list) == [kind |-> kind, list |-> list]
NoMember == Member("absent", <<>>)
Decoy == <<WlanStr(TestA)>>
FetchResponse(arrived, status, items, wlans) ==
  [arrived |-> arrived, status_code |-> status, items |-> items, wlans |-> wlans]
FetchResponses ==
  {FetchResponse(TRUE, 200, Member("list", l), NoMember) : l \in WlanLists}
    \cup {FetchResponse(TRUE, 200, NoMember, Member("list", l)) : l \in WlanLists}
    \cup {FetchResponse(TRUE, 200, Member("list", <<w>>), Member("list", Decoy)) : w \in Wlans}
    \cup {FetchResponse(TRUE, 200, Member("null", <<>>), Member("list", Decoy)),
          FetchResponse(TRUE, 200, NoMember, NoMember),
          FetchResponse(TRUE, 500, Member("list", Decoy), NoMember),
          FetchResponse(FALSE, 200, Member("list", Decoy), NoMember)}
DeleteResponses ==
  {[arrived |-> TRUE, status_code |-> st] : st \in {200, 204, 404}}
    \cup {[arrived |-> FALSE, status_code |-> 200]}

\* login_to_dashboard(): the body's session_id on status 200, else None;
\* any exception (no answer, a body without .get) is caught and gives None.
login_to_dashboard(resp) ==
  IF resp.arrived /\ resp.status_code = 200 /\ resp.body.kind = "dict"
  THEN resp.body.session_id
  ELSE None

\* get_all_wlans(session_id): data.get('items', data.get('wlans', [])) on
\* status 200, else [].
get_all_wlans(resp) ==
  IF resp.arrived /\ resp.status_code = 200
  THEN IF resp.items.kind # "absent" THEN resp.items
       ELSE IF resp.wlans.kind # "absent" THEN resp.wlans
       ELSE Member("list", <<>>)
  ELSE Member("list", <<>>)

\* delete_wlan(wlan_name, session_id): status 200 or 204; False when the
\* request raises.
delete_wlan(resp) == resp.arrived /\ resp.status_code \in {200, 204}

\* main, lines 65-74: by ssid, else by name, else the plain strings.
by_ssid(w) == w.kind = "dict" /\ startswith(wlan_get(w, "ssid", EmptyName), Prefix)
by_name(w) == w.kind = "dict" /\ startswith(wlan_get(w, "name", EmptyName), Prefix)
by_str(w) == w.kind = "str" /\ startswith(w.text, Prefix)
select_test_wlans(wlans) ==
  IF SelectSeq(wlans, by_ssid) # <<>> THEN SelectSeq(wlans, by_ssid)
  ELSE IF SelectSeq(wlans, by_name) # <<>> THEN SelectSeq(wlans, by_name)
  ELSE SelectSeq(wlans, by_str)

\* main, lines 105-108: the name handed to delete_wlan.
wlan_name(w) ==
  IF w.kind = "dict"
  THEN wlan_get(w, "ssid", wlan_get(w, "name", EmptyName))
  ELSE w.text

\* A tally that counts successes only.
tally_successes_only(deleted, failed, ok) ==
  [deleted |-> IF ok THEN deleted + 1 ELSE deleted, failed |-> failed]

\* main, lines 110-115: one of the two counters goes up.
tally(deleted, failed, ok) ==
  [deleted |-> IF ok THEN deleted + 1 ELSE deleted,
   failed |-> IF ok THEN failed ELSE failed + 1]

Request(op, session, name) == [op |-> op, session |-> session, name |-> name]
NoSummary == [printed |-> FALSE, deleted |-> 0, failed |-> 0, total |-> 0, verdict |-> "none"]

InitCleanup ==
  /\ ClientUnused
  /\ conc = Idle
  /\ cfg = Idle
  /\ script = [pc |-> "login", session_id |-> None, wlans |-> Member("list", <<>>),
               test_wlans |-> <<>>, i |-> 0,
               deleted_count |-> 0, failed_count |-> 0, requests |-> <<>>,
               summary |-> NoSummary]

\* main, lines 53-57.
Login(resp) ==
  /\ script.pc = "login"
  /\ LET sid == login_to_dashboard(resp) IN
     script' = [script EXCEPT
       !.session_id = sid,
       !.requests = Append(@, Request("login", None, EmptyName)),
       !.pc = IF Truthy(sid) THEN "fetch" ELSE "exit"]
  /\ UNCHANGED <<clientVars, conc, cfg>>

\* main, lines 63-78: a null list makes the comprehension raise TypeError.
Fetch(resp) ==
  /\ script.pc = "fetch"
  /\ LET got == get_all_wlans(resp)
         test_wlans == select_test_wlans(got.list) IN
     script' = [script EXCEPT
       !.requests = Append(@, Request("fetch", script.session_id, EmptyName)),
       !.wlans = got,
       !.test_wlans = IF got.kind = "null" THEN <<>> ELSE test_wlans,
       !.pc = IF got.kind = "null" THEN "TypeError"
              ELSE IF test_wlans = <<>> THEN "exit" ELSE "delete"]
  /\ UNCHANGED <<clientVars, conc, cfg>>

\* main, lines 104-115: one turn of the loop.
Delete(resp) ==
  /\ script.pc = "delete"
  /\ script.i < Len(script.test_wlans)
  /\ LET name == wlan_name(script.test_wlans[script.i + 1])
         t == tally(script.deleted_count, script.failed_count, delete_wlan(resp)) IN
     script' = [script EXCEPT
       !.requests = Append(@, Request("delete", script.session_id, name)),
       !.deleted_count = t.deleted,
       !.failed_count = t.failed,
       !.i = @ + 1]
  /\ UNCHANGED <<clientVars, conc, cfg>>

\* main, lines 117-129.
Summary ==
  /\ script.pc = "delete"
  /\ script.i = Len(script.test_wlans)
  /\ script' = [script EXCEPT
       !.pc = "done",
       !.summary = [printed |-> TRUE, deleted |-> script.deleted_count,
                    failed |-> script.failed_count, total |-> Len(script.test_wlans),
                    verdict |-> IF script.deleted_count = Len(script.test_wlans) THEN "all"
                                ELSE IF script.failed_count > 0 THEN "some" ELSE "none"]]
  /\ UNCHANGED <<clientVars, conc, cfg>>

DoLogin == \E resp \in LoginResponses : Login(resp)
DoFetch == \E resp \in FetchResponses : Fetch(resp)
DoDelete == \E resp \in DeleteResponses : Delete(resp)

NextCleanup == DoLogin \/ DoFetch \/ DoDelete \/ Summary

SpecCleanup == InitCleanup /\ [][NextCleanup]_vars

\* ------------------------------------------------------------------ claims
ProviderBacked == phase = "ready" /\ Truthy(token_manager)
StaticOnly == phase = "ready" /\ ~Truthy(token_manager)
HasAuth(h) == "Authorization" \in DOMAIN h
\* The tokens the provider returned, in order (its failed calls left out).
TokensReturned == SelectSeq(fetchLog, LAMBDA a : a # Raise)
\* A verb call that got its answer from the transport and has ended.
Answered == last.op \in Verbs /\ last.response.arrived /\ last.outcome # "pending"
StatusOf == last.response.status_code
TextOf == last.response.text

\* C1: on a provider-backed client every request carries "Bearer t", t the
\* token the provider returned in the get_access_token call of that same
\* verb call: the i-th request carries the token of the provider's i-th
\* answer after the constructor's, the request of the call under way carries
\* the token fetched in it, and the static token is in no request.
C1_RequestCarriesFetchedToken ==
  ProviderBacked =>
    /\ Len(sentLog) = Len(TokensReturned) - 1
    /\ \A i \in 1..Len(sentLog) :
         /\ HasAuth(sentLog[i])
         /\ sentLog[i]["Authorization"] = Bearer(TokensReturned[i + 1])
         /\ sentLog[i]["Authorization"] # Bearer(StaticToken)
    /\ (last.op \in Verbs /\ last.sent > 0) =>
         /\ Len(last.fetched) = 1
         /\ last.fetched[1] = fetchLog[Len(fetchLog)]
         /\ sentLog[Len(sentLog)]["Authorization"] = Bearer(last.fetched[1])

\* Two calls on a client given both credentials, the provider's token
\* changing in between: the two requests carry two tokens.
C1_Witness ==
  /\ ProviderBacked /\ access_token = StaticToken
  /\ Len(sentLog) = 2
  /\ sentLog[1]["Authorization"] = Bearer("tokA")
  /\ sentLog[2]["Authorization"] = Bearer("tokB")
  /\ last.outcome = "ok"

\* C2: a constructor given neither a static token nor a provider raises
\* ValueError; the client never becomes usable: no Authorization header,
\* no verb call, no request.
C2_NoCredentialFails ==
  (phase # "new" /\ ~Truthy(access_token) /\ ~Truthy(token_manager)) =>
    /\ phase = "failed"
    /\ last.op = "init" /\ last.outcome = "ValueError"
    /\ ~HasAuth(headers)
    /\ calls = 0 /\ sentLog = <<>> /\ fetchLog = <<>>

C2_Witness ==
  /\ phase = "failed" /\ access_token = None /\ token_manager = None
  /\ last.outcome = "ValueError"

\* C3: constructing with a provider calls get_access_token exactly once,
\* before any verb call, and the Authorization header is set from that
\* token at once.
C3_EagerFetch ==
  /\ (ProviderBacked /\ calls = 0) =>
       /\ Len(fetchLog) = 1
       /\ HasAuth(headers) /\ headers["Authorization"] = Bearer(fetchLog[1])
       /\ sentLog = <<>>
  /\ (phase # "new" /\ Truthy(token_manager)) =>
       /\ Len(fetchLog) >= 1
       /\ last.op = "init" => (fetchLog = last.fetched /\ Len(fetchLog) = 1)

C3_Witness ==
  /\ ProviderBacked /\ calls = 0 /\ last.op = "init"
  /\ fetchLog = <<"tokB">> /\ headers["Authorization"] = Bearer("tokB")

\* C4: on a client with a static token and no provider the headers stay
\* what the constructor set, Authorization "Bearer <static token>", through
\* every verb call, failed or not, and every request carries that token;
\* no provider is ever asked.
C4_StaticTokenForLife ==
  StaticOnly =>
    /\ headers = _update_token(Update(<<>>, "Content-Type" :> "application/json"), access_token)
    /\ headers["Authorization"] = Bearer(access_token)
    /\ \A i \in 1..Len(sentLog) : sentLog[i]["Authorization"] = Bearer(access_token)
    /\ fetchLog = <<>>

C4_Witness ==
  /\ StaticOnly /\ access_token = StaticToken
  /\ calls = 2 /\ Len(sentLog) = 2
  /\ last.outcome = "HTTPError"
  /\ headers["Authorization"] = Bearer(StaticToken)

\* C5: for every verb, a response with status >= 400 ends the call in an
\* HTTPError carrying that status, and no value is returned.
C5_ErrorStatusRaises ==
  (Answered /\ StatusOf >= 400) =>
    /\ last.outcome = "HTTPError"
    /\ last.errStatus = StatusOf
    /\ last.value = NoValue

Blank(text) == \A i \in 1..Len(text) : text[i] = "ws"
Undecodable(text) == ~json(text).ok
DecodesToNull(text) == json(text).ok /\ json(text).val = JNull

\* C7: get with a success status and a body that is empty, whitespace
\* only, the JSON value null or not decodable returns {} and raises nothing.
C7_GetLenient ==
  (Answered /\ last.op = "get" /\ StatusOf < 400
     /\ (Blank(TextOf) \/ Undecodable(TextOf) \/ DecodesToNull(TextOf))) =>
    /\ last.outcome = "ok"
    /\ last.value = EmptyDict

\* A 200 with a body that is no JSON, answered to get: {} came back.
C7_Witness ==
  /\ Answered /\ last.op = "get" /\ StatusOf = 200
  /\ TextOf = <<"x", "ws", "x">>
  /\ last.outcome = "ok" /\ last.value = EmptyDict

\* C8: post, put and delete with a success status and a body that is empty
\* or not decodable raise a decode error and return nothing (never {});
\* get with the same response returns {}.
C8_NoLeniencyOutsideGet ==
  (Answered /\ StatusOf < 400 /\ Undecodable(TextOf)) =>
    /\ last.op \in {"post", "put", "delete"} =>
         (last.outcome = "JSONDecodeError" /\ last.value = NoValue)
    /\ last.op = "get" => (last.outcome = "ok" /\ last.value = EmptyDict)

\* A 200 with an empty body, answered to post: a decode error.
C8_Witness ==
  /\ Answered /\ last.op = "post" /\ StatusOf = 200 /\ TextOf = <<>>
  /\ last.outcome = "JSONDecodeError"

\* C9: every get that returns returns a mapping.
C9_GetReturnsMapping ==
  (last.op = "get" /\ last.outcome = "ok") => IsMapping(last.value)

\* The verb calls whose hook raised: the provider's failures after the
\* constructor's call.
HookFailures == Len(fetchLog) - Len(TokensReturned)

\* C10: a verb call makes one network request and no more, whether it ends
\* in an HTTP error (401 too), a decode error, a transport error or a
\* value: nothing is sent again and the provider is asked at most once per
\* call.  (A call whose hook raises sends nothing.)
C10_OneRequestPerCall ==
  phase = "ready" =>
    /\ Len(sentLog) = calls - HookFailures
    /\ Len(fetchLog) = IF Truthy(token_manager) THEN calls + 1 ELSE 0
    /\ last.op \in Verbs =>
         /\ Len(last.fetched) <= 1
         /\ last.sent = IF last.outcome = "ProviderError" THEN 0 ELSE 1

\* Two calls ended, the second in a 401: two requests in all.
C10_Witness ==
  /\ ProviderBacked /\ calls = 2 /\ Answered
  /\ StatusOf = 401 /\ last.outcome = "HTTPError"
  /\ Len(sentLog) = 2 /\ Len(fetchLog) = 3

\* C11: every verb hands the caller's params, and in post and put the
\* caller's data as json, to the transport call as they were given, and
\* the caller's objects are after the call what they were before it.
C11_ArgumentsForwardedUnchanged ==
  last.op \in Verbs =>
    /\ req.after = req.given
    /\ Len(req.sent) = last.sent
    /\ \A i \in 1..Len(req.sent) :
         /\ req.sent[i].params = req.given.params
         /\ req.sent[i].json = IF last.op \in {"post", "put"} THEN req.given.data
                               ELSE AbsentArg

\* A put with two query parameters and a payload has returned.
C11_Witness ==
  /\ last.op = "put" /\ last.outcome = "ok"
  /\ req.given.params = DictArg({<<"limit", "10">>, <<"offset", "0">>})
  /\ req.given.data = DictArg({<<"ssid", "lab">>})
  /\ Len(req.sent) = 1 /\ req.sent[1].json = req.given.data

\* C12: when the callers serialise their calls, every request carries the
\* token its own caller's hook fetched; without that, a request can be sent
\* carrying the token the other caller's hook fetched (C12_Witness).
C12_SerialisedCallsCarryOwnToken ==
  (conc.pc = "run" /\ conc.serialised) =>
    \A i \in 1..Len(conc.sent) : conc.sent[i].auth = Bearer(conc.sent[i].own)

\* Unserialised: caller 1 sent a request with the token caller 2 fetched.
C12_Witness ==
  /\ conc.pc = "run" /\ ~conc.serialised
  /\ \E i \in 1..Len(conc.sent) :
       /\ conc.sent[i].caller = 1
       /\ conc.sent[i].own = "tokA"
       /\ conc.sent[i].others = "tokB"
       /\ conc.sent[i].auth = Bearer("tokB")

\* Serialised: both callers have sent, each its own token.
C12_SerialWitness ==
  /\ conc.pc = "run" /\ conc.serialised
  /\ Len(conc.sent) = 2
  /\ conc.sent[1].auth = Bearer("tokA") /\ conc.sent[2].auth = Bearer("tokB")

\* "Bearer <token>" for a token a caller or the provider can supply.
IsBearer(v) == \E t \in Tokens \cup {StaticToken} : v = Bearer(t)
HasBoth(h) ==
  /\ "Content-Type" \in DOMAIN h /\ h["Content-Type"] = "application/json"
  /\ "Authorization" \in DOMAIN h /\ IsBearer(h["Authorization"])

\* C13: a constructed client's session headers always hold Content-Type
\* application/json and an Authorization of the form "Bearer <token>"; no
\* verb call and no token refresh takes Content-Type away, and every
\* request sent carries both.
C13_BothHeadersAlways ==
  phase = "ready" =>
    /\ HasBoth(headers)
    /\ \A i \in 1..Len(sentLog) : HasBoth(sentLog[i])

\* A provider-backed client after a refresh and two requests.
C13_Witness ==
  /\ ProviderBacked /\ Len(sentLog) = 2 /\ Len(fetchLog) = 3
  /\ fetchLog[1] # fetchLog[3]
  /\ headers["Content-Type"] = "application/json"
  /\ headers["Authorization"] = Bearer(fetchLog[3])

\* C16: the hook keeps no freshness cache: on a provider-backed client
\* every verb call asks the provider exactly once, before its request is
\* sent, whether or not the token changed and however the call ends; after
\* construction and n verb calls the provider has been asked n + 1 times.
C16_ProviderAskedEveryCall ==
  ProviderBacked =>
    /\ Len(fetchLog) = calls + 1
    /\ last.op \in Verbs =>
         /\ Len(last.fetched) = 1
         /\ last.fetched[1] = fetchLog[Len(fetchLog)]
         /\ last.sent > 0 => sentLog[Len(sentLog)]["Authorization"] = Bearer(last.fetched[1])

\* Two calls with the token never changing, the second one failed: the
\* provider was asked three times.
C16_Witness ==
  /\ ProviderBacked /\ calls = 2
  /\ fetchLog = <<"tokA", "tokA", "tokA">>
  /\ last.outcome = "HTTPError"

\* C18: given both a static token and a provider the constructor does not
\* reject the arguments and succeeds with the provider's token; the static
\* token is never in the Authorization header, at construction or in any
\* request.  (If the provider itself raises, that error leaves __init__.)
C18_ProviderTakesPrecedence ==
  (phase # "new" /\ Truthy(access_token) /\ Truthy(token_manager)) =>
    /\ Len(fetchLog) >= 1
    /\ last.op = "init" => last.outcome \in {"ok", "ProviderError"}
    /\ (last.op = "init" /\ fetchLog[1] # Raise) => phase = "ready"
    /\ HasAuth(headers) => headers["Authorization"] # Bearer(access_token)
    /\ phase = "ready" => (HasAuth(headers) /\ headers["Authorization"] = Bearer(TokensReturned[Len(TokensReturned)]))
    /\ \A i \in 1..Len(sentLog) : sentLog[i]["Authorization"] # Bearer(access_token)

\* Both credentials given, two requests sent with the provider's tokens.
C18_Witness ==
  /\ phase = "ready" /\ access_token = StaticToken /\ token_manager = Provider
  /\ Len(sentLog) = 2
  /\ sentLog[1]["Authorization"] = Bearer("tokB")
  /\ sentLog[2]["Authorization"] = Bearer("tokA")

\* C19: if get_access_token raises in the hook of a verb call, the call
\* ends in that error with no value, no request is sent for it and the
\* Authorization header is what it was before the call.
C19_HookFailureLeavesClientUntouched ==
  [][(calls' = calls + 1 /\ last'.outcome = "ProviderError") =>
       /\ last'.op \in Verbs /\ last'.value = NoValue /\ last'.sent = 0
       /\ headers' = headers
       /\ sentLog' = sentLog
       /\ req'.sent = <<>>]_vars

\* The second call's hook failed: one request in all, the first token kept.
C19_Witness ==
  /\ ProviderBacked /\ calls = 2
  /\ last.op \in Verbs /\ last.outcome = "ProviderError"
  /\ fetchLog = <<"tokA", "tokB", Raise>>
  /\ Len(sentLog) = 1
  /\ headers["Authorization"] = Bearer("tokB")

\* C14: load_config returns a mapping with the key aruba_central whose
\* value has the key base_url, whatever the config file (absent, empty, any
\* YAML content, an aruba_central entry with no value) and the environment.
C14_ConfigAlwaysHasBaseUrl ==
  cfg.pc = "done" =>
    /\ cfg.result.outcome = "ok"
    /\ "aruba_central" \in cfg.result.keys
    /\ HasKey(cfg.result.aruba_central, "base_url")

\* The environment as os.getenv sees it, and the file's aruba_central
\* mapping.
EnvironOf == load_dotenv(cfg.env, cfg.dotenv)
SectionOf == cfg.file.section

\* C17: each field is the environment variable's value whenever the
\* variable is set, whatever the file holds; else the file's aruba_central
\* value if it has one; else the built-in default.
C17_EnvThenFileThenDefault ==
  cfg.pc = "done" =>
    \A f \in Fields :
      /\ cfg.result.outcome = "ok"
      /\ dict_get(cfg.result.aruba_central, f, "<missing>") =
           IF HasKey(EnvironOf, EnvVar(f)) THEN dict_get(EnvironOf, EnvVar(f), None)
           ELSE IF SectionOf.kind = "dict" /\ HasKey(SectionOf.fields, f)
           THEN dict_get(SectionOf.fields, f, None)
           ELSE Default(f)

\* The precedence where load_config returns (checked for reference).
C17_PrecedenceWhereReturned ==
  (cfg.pc = "done" /\ cfg.result.outcome = "ok") =>
    \A f \in Fields :
      dict_get(cfg.result.aruba_central, f, "<missing>") =
        IF HasKey(EnvironOf, EnvVar(f)) THEN dict_get(EnvironOf, EnvVar(f), None)
        ELSE IF SectionOf.kind = "dict" /\ HasKey(SectionOf.fields, f)
        THEN dict_get(SectionOf.fields, f, None)
        ELSE Default(f)

\* The delete requests issued so far.
DeleteRequests == {k \in DOMAIN script.requests : script.requests[k].op = "delete"}

\* C15: every name handed to delete_wlan starts with 'test_', whatever the
\* WLAN list the dashboard returned.
C15_OnlyTestWlansDeleted ==
  \A k \in DeleteRequests : startswith(script.requests[k].name, Prefix)

\* C20: the script logs in, then fetches, then deletes: a fetch or delete
\* request is issued only with the session id login returned, the k-th
\* delete request is the one attempt for the k-th selected WLAN, and when
\* the summary is printed deleted_count + failed_count is the number of
\* selected WLANs.
C20_LoginFetchDeleteInOrder ==
  LET R == script.requests IN
  /\ \A k \in DOMAIN R :
       /\ R[k].op = "login" <=> k = 1
       /\ R[k].op = "fetch" <=> k = 2
       /\ R[k].op \in {"fetch", "delete"} =>
            Truthy(script.session_id) /\ R[k].session = script.session_id
  /\ Cardinality(DeleteRequests) = script.i
  /\ script.i <= Len(script.test_wlans)
  /\ \A j \in 1..script.i :
       /\ R[j + 2].op = "delete"
       /\ R[j + 2].name = wlan_name(script.test_wlans[j])
  /\ script.deleted_count + script.failed_count = script.i
  /\ script.summary.printed =>
       /\ script.i = Len(script.test_wlans)
       /\ script.deleted_count + script.failed_count = Len(script.test_wlans)
       /\ script.summary.deleted + script.summary.failed = script.summary.total
       /\ script.summary.total = Len(script.test_wlans)

\* The summary is printed after one WLAN was deleted and one was not.
C20_Witness ==
  /\ script.pc = "done"
  /\ script.summary.printed
  /\ script.summary.deleted >= 1
  /\ script.summary.failed >= 1

====
